---- MODULE Spec2Model ----
(***************************************************************************)
(* The YourGPT service worker: the cache gate of src/sw.js (production     *)
(* only, promise chain) and of src/unnamed/part_000 (production and        *)
(* development mode, async function).  One worker script is registered at  *)
(* one location; the platform drives it with install, activate and fetch   *)
(* events, and may stop the idle worker and start it again.                *)
(*                                                                         *)
(* A step of a task is the code that runs between two awaits.  A store     *)
(* read (caches.match) is served as of the moment it is issued, so the     *)
(* step that issues it also runs the code that follows it; a store write   *)
(* (open, put, delete) and a network fetch settle in a step of their own.  *)
(***************************************************************************)
EXTENDS Integers, Sequences, FiniteSets, TLC

\* ------------------------------------------------------------- bounds
MaxTasks == 2      \* fetch tasks in flight at once
MaxVersion == 2    \* versions of the content the network serves
MaxClock == 2      \* values Date.now() takes at a startup

VARIABLES
  script,      \* which worker file is registered: "sw.js" or "part_000"
  location,    \* self.location.href of the worker
  CACHE_NAME,  \* the generation identifier, set when the script is evaluated
  prevName,    \* the identifier the previous startup minted ("" before any)
  phase,       \* lifecycle: parsed, installing, installed, activating,
               \* activated, active
  caches,      \* CacheStorage: the stores, in creation order
  tasks,       \* the fetch events in flight, by slot
  netVersion,  \* the version of the content the network serves now
  instLog,     \* what the last install did
  actLog       \* what the last activate did

vars == <<script, location, CACHE_NAME, prevName, phase, caches, tasks,
          netVersion, instLog, actLog>>

\* ------------------------------------------------------------ strings
Min(S) == CHOOSE m \in S : \A n \in S : m <= n

CharAt(s, i) == SubSeq(s, i, i)

\* String.prototype.includes
Includes(s, t) ==
  \E i \in 1..(Len(s) - Len(t) + 1) : SubSeq(s, i, i + Len(t) - 1) = t

\* the first index >= from of a character of chars, Len(s) + 1 when none
FirstIndex(s, chars, from) ==
  LET hits == {i \in from..Len(s) : CharAt(s, i) \in chars}
  IN  IF hits = {} THEN Len(s) + 1 ELSE Min(hits)

\* new URL(u): protocol, host, hostname, port, origin
Protocol(u) == SubSeq(u, 1, FirstIndex(u, {":"}, 1))

Host(u) ==
  LET start == Len(Protocol(u)) + 3
  IN  SubSeq(u, start, FirstIndex(u, {"/", "?", "#"}, start) - 1)

Hostname(u) == SubSeq(Host(u), 1, FirstIndex(Host(u), {":"}, 1) - 1)

Port(u) == SubSeq(Host(u), FirstIndex(Host(u), {":"}, 1) + 1, Len(Host(u)))

Origin(u) == Protocol(u) \o "//" \o Host(u)

\* a URL given to the Cache API or to fetch, resolved against the worker's location
Resolve(u, loc) == IF CharAt(u, 1) = "/" THEN Origin(loc) \o u ELSE u

\* ----------------------------------------------------- the environment
\* the places a worker script is served from: a production host and a
\* development server
Locations == {"https://yourgpt.example.com/sw.js", "http://localhost:3000/sw.js"}

Scripts == {"sw.js", "part_000"}

\* sw.js has one mode; part_000 is served in production and in development
Deployments ==
  { <<"sw.js", "https://yourgpt.example.com/sw.js">>,
    <<"part_000", "https://yourgpt.example.com/sw.js">>,
    <<"part_000", "http://localhost:3000/sw.js">> }

\* a Response; Undefined stands for JavaScript's undefined
Undefined == [url |-> "", status |-> 0, type |-> "undefined", body |-> 0]

Response(u, st, ty, b) == [url |-> u, status |-> st, type |-> ty, body |-> b]

\* part_000 lines 14-20, sw.js lines 2-8
urlsToCache ==
  << "/",
     "/index.html",
     "/manifest.json",
     "https://cdn.jsdelivr.net/npm/marked/marked.min.js",
     "https://fonts.googleapis.com/css2?family=Inter:wght@400;500;600;700&display=swap" >>

\* the requests the pages of the application send
Request(m, u, d) == [method |-> m, url |-> u, destination |-> d]

Requests(loc) ==
  { Request("GET", Resolve("/index.html", loc), "document"),
    Request("GET", Resolve("/", loc), "document"),
    Request("POST", Resolve("/api/chat", loc), ""),
    Request("GET", "https://cdn.jsdelivr.net/npm/marked/marked.min.js", "script"),
    Request("GET", "https://example.org/ads.js", "script"),
    Request("GET", "chrome-extension://abcdefgh/content.js", "script"),
    Request("GET", "chrome://settings/", "document"),
    Request("GET", "moz-extension://abcdefgh/content.js", "script"),
    Request("GET", "ms-browser-extension://abcdefgh/content.js", "script") }

\* the URLs the worker at loc fetches or stores
Urls(loc) ==
  {r.url : r \in Requests(loc)} \cup
  {Resolve(urlsToCache[i], loc) : i \in 1..Len(urlsToCache)}

\* the URL parsing above, done once for each location and URL of the model
RequestsAt == [loc \in Locations |-> Requests(loc)]

SameOriginAt == [loc \in Locations |-> [u \in Urls(loc) |-> Origin(u) = Origin(loc)]]

\* what the network answers to a GET of u sent from loc: a rejected fetch, or
\* a response of the content's current version; a same-origin response has
\* type basic, a cross-origin one type cors, or opaque with status 0
NetworkError == [ok |-> FALSE, response |-> Undefined]

NetOutcomes(u, loc, version) ==
  {NetworkError} \cup
  { [ok |-> TRUE, response |-> r] :
      r \in IF SameOriginAt[loc][u]
            THEN {Response(u, 200, "basic", version), Response(u, 404, "basic", version)}
            ELSE {Response(u, 200, "cors", version), Response(u, 404, "cors", version),
                  Response(u, 0, "opaque", version)} }

\* a store operation completes or raises
StoreOutcomes == {"ok", "raise"}

\* ------------------------------------------------- the script's globals
\* part_000 lines 2-7; sw.js has no development mode
isDevelopmentAt(loc) ==
  \/ Hostname(loc) = "localhost"
  \/ Hostname(loc) = "127.0.0.1"
  \/ Includes(Hostname(loc), "local")
  \/ Port(loc) = "3000"
  \/ Port(loc) = "8080"
  \/ Port(loc) = "5000"

isDevelopmentIn == [loc \in Locations |-> isDevelopmentAt(loc)]

isDevelopment == script = "part_000" /\ isDevelopmentIn[location]

\* part_000 lines 10-12, sw.js line 1: the name minted when the script is
\* evaluated and Date.now() returns now
MintCacheName(scr, loc, now) ==
  IF scr = "part_000" /\ isDevelopmentIn[loc]
  THEN "yourgpt-dev-" \o ToString(now)
  ELSE "yourgpt-v1.0.0"

\* ---------------------------------------------------- the Cache Storage
\* caches is a sequence of [name, entries]; entries maps a request URL to
\* the response stored under it
StoreNames(cs) == {cs[i].name : i \in 1..Len(cs)}

StoreIndex(cs, name) == CHOOSE i \in 1..Len(cs) : cs[i].name = name

EmptyEntries == [k \in {} |-> Undefined]

\* caches.match(key): the first store, in creation order, holding the key
MatchIndex(cs, key) ==
  LET hits == {i \in 1..Len(cs) : key \in DOMAIN cs[i].entries}
  IN  IF hits = {} THEN 0 ELSE Min(hits)

CachesMatch(cs, key) ==
  IF MatchIndex(cs, key) = 0 THEN Undefined ELSE cs[MatchIndex(cs, key)].entries[key]

\* the name of the store caches.match(key) reads from, "" on a miss
MatchStore(cs, key) ==
  IF MatchIndex(cs, key) = 0 THEN "" ELSE cs[MatchIndex(cs, key)].name

\* caches.open(name): the store is created, last, when absent
CachesOpen(cs, name) ==
  IF name \in StoreNames(cs) THEN cs
  ELSE Append(cs, [name |-> name, entries |-> EmptyEntries])

\* faulty variant, for testing the properties: the put writes nothing
CachePut_Lost(cs, name, key, response) == cs

\* faulty variant, for testing the properties: an entry already there is kept
CachePut_KeepFirst(cs, name, key, response) ==
  IF name \notin StoreNames(cs) \/ key \in DOMAIN cs[StoreIndex(cs, name)].entries
  THEN cs
  ELSE [cs EXCEPT ![StoreIndex(cs, name)].entries =
          [k \in (DOMAIN @) \cup {key} |-> IF k = key THEN response ELSE @[k]]]

\* faulty variant, for testing the properties: the put empties the store first
CachePut_Reset(cs, name, key, response) ==
  IF name \notin StoreNames(cs) THEN cs
  ELSE [cs EXCEPT ![StoreIndex(cs, name)].entries = [k \in {key} |-> response]]

\* cache.put(key, response) on the store called name
CachePut(cs, name, key, response) ==
  IF name \notin StoreNames(cs) THEN cs
  ELSE [cs EXCEPT ![StoreIndex(cs, name)].entries =
          [k \in (DOMAIN @) \cup {key} |-> IF k = key THEN response ELSE @[k]]]

\* caches.delete(name) for every name of names
CachesDelete(cs, names) == SelectSeq(cs, LAMBDA s : s.name \notin names)

\* ------------------------------------------------------ the fetch tasks
NoRequest == Request("", "", "")

\* a slot holds a fetch event in flight: intercepted says respondWith was
\* called; pc is the await the task is suspended at; state and result are
\* the promise handed to respondWith; storeOps and netCalls count the store
\* operations and the fetches the worker issued for the event; resp is the
\* response of the last fetch that settled, Undefined when it failed; from
\* is the store the result was read from;
\* hadEntry says CacheStorage held the request when the event was dispatched;
\* ioError says a store operation of the task raised; unhandled says a
\* rejection was left unhandled
IdleTask ==
  [pc |-> "idle", req |-> NoRequest, intercepted |-> FALSE, resp |-> Undefined,
   storeOps |-> 0, netCalls |-> 0, state |-> "none", result |-> Undefined,
   from |-> "", hadEntry |-> FALSE, ioError |-> FALSE, unhandled |-> FALSE]

\* the listener returned without respondWith: the platform handles the request
NativeEvent(req) == [IdleTask EXCEPT !.pc = "done", !.req = req, !.state = "native"]

NewTask(req) ==
  [IdleTask EXCEPT !.pc = "start", !.req = req, !.intercepted = TRUE,
                   !.state = "pending",
                   !.hadEntry = (CachesMatch(caches, req.url) # Undefined)]

\* faulty variant, for testing the properties: the promise is never settled
Fulfilled_Pending(tk, response, store) ==
  [tk EXCEPT !.result = response, !.from = store]

Fulfilled(tk, response, store) ==
  [tk EXCEPT !.pc = "done", !.state = "fulfilled", !.result = response, !.from = store]

Rejected(tk) == [tk EXCEPT !.pc = "done", !.state = "rejected"]

\* fetch(request) is called: the task suspends at pc until it settles
IssueFetch(tk, pc) == [tk EXCEPT !.pc = pc, !.netCalls = @ + 1]

\* the fetch the task is suspended at settles with out
Got(tk, out) == [tk EXCEPT !.resp = out.response]

\* a store operation (match, open, put) is called
StoreOp(tk) == [tk EXCEPT !.storeOps = @ + 1]

\* a store operation is called and raises
StoreRaise(tk) == [tk EXCEPT !.storeOps = @ + 1, !.ioError = TRUE]

FreeSlots == {t \in 1..MaxTasks : tasks[t].pc = "idle"}

\* no fetch event is in flight
Quiet == \A t \in 1..MaxTasks : tasks[t].pc = "idle"

\* the tasks suspended at a fetch
Fetching ==
  {t \in 1..MaxTasks : tasks[t].pc \in {"dev_fetch", "fetch", "fallback_fetch"}}

\* the listener's three early returns: part_000 lines 56-76, sw.js lines 41-61
\* faulty variant, for testing the properties: the method is not looked at
SkipMethod_Dropped(req) == FALSE

SkipMethod(req) == req.method # "GET"

SkipScheme(req) ==
  \/ Protocol(req.url) = "chrome-extension:"
  \/ Protocol(req.url) = "chrome:"
  \/ Protocol(req.url) = "moz-extension:"
  \/ Protocol(req.url) = "ms-browser-extension:"

SkipOrigin(req, loc) ==
  /\ Origin(req.url) # Origin(loc)
  /\ ~Includes(Hostname(req.url), "cdn.tailwindcss.com")
  /\ ~Includes(Hostname(req.url), "cdn.jsdelivr.net")
  /\ ~Includes(Hostname(req.url), "fonts.googleapis.com")
  /\ ~Includes(Hostname(req.url), "supabase.co")

PassThrough(req, loc) == SkipMethod(req) \/ SkipScheme(req) \/ SkipOrigin(req, loc)

PassThroughAt ==
  [loc \in Locations |-> [req \in Requests(loc) |-> PassThrough(req, loc)]]

\* part_000 lines 93-102: the lookup and what follows it. A lookup that
\* raises leaves the async function, whose promise rejects
\* faulty variant, for testing the properties: the stored response is never returned
PartMatch_IgnoreHit(tk) ==
  { Rejected(StoreRaise(tk)), IssueFetch(StoreOp(tk), "fetch") }

PartMatch(tk) ==
  { Rejected(StoreRaise(tk)) } \cup
  { IF CachesMatch(caches, tk.req.url) # Undefined /\ ~isDevelopment
    THEN Fulfilled(StoreOp(tk), CachesMatch(caches, tk.req.url),
                   MatchStore(caches, tk.req.url))
    ELSE IssueFetch(StoreOp(tk), "fetch") }

\* sw.js lines 64-74 and 105-108: the lookup; the outer catch answers a
\* lookup that raises with a second fetch
SwMatch(tk) ==
  { IssueFetch(StoreRaise(tk), "fallback_fetch") } \cup
  { IF CachesMatch(caches, tk.req.url) # Undefined
    THEN Fulfilled(StoreOp(tk), CachesMatch(caches, tk.req.url),
                   MatchStore(caches, tk.req.url))
    ELSE IssueFetch(StoreOp(tk), "fetch") }

\* part_000 lines 78-91: the async function up to its first await
PartStart(tk) ==
  IF isDevelopment THEN { IssueFetch(tk, "dev_fetch") } ELSE PartMatch(tk)

\* the fetch listener
FetchEvent(req) ==
  /\ phase = "active"
  /\ FreeSlots # {}
  /\ \E nt \in IF PassThroughAt[location][req] THEN { NativeEvent(req) }
               ELSE IF script = "sw.js" THEN SwMatch(NewTask(req))
               ELSE PartStart(NewTask(req)) :
       tasks' = [tasks EXCEPT ![Min(FreeSlots)] = nt]
  /\ UNCHANGED <<script, location, CACHE_NAME, prevName, phase, caches,
                 netVersion, instLog, actLog>>

\* part_000 lines 83-91: the development fetch settles
DevFetchSettled(t, out) ==
  /\ tasks[t].pc = "dev_fetch"
  /\ \E nt \in IF out.ok /\ out.response.status = 200
               THEN { Fulfilled(Got(tasks[t], out), out.response, "") }
               ELSE PartMatch(Got(tasks[t], out)) :
       tasks' = [tasks EXCEPT ![t] = nt]
  /\ UNCHANGED <<script, location, CACHE_NAME, prevName, phase, caches,
                 netVersion, instLog, actLog>>

\* faulty variant, for testing the properties: the type of the response is not looked at
Invalid_StatusOnly(response) ==
  response = Undefined \/ response.status # 200

\* the validity check: part_000 line 105, sw.js line 76
Invalid(response) ==
  response = Undefined \/ response.status # 200 \/ response.type # "basic"

\* the key of caches.match('/index.html'): part_000 line 127, sw.js line 101
IndexHtmlAt == [loc \in Locations |-> Resolve("/index.html", loc)]

IndexHtml == IndexHtmlAt[location]

\* event.request.url.includes('index.html'): part_000 line 110
IsIndexHtml == [loc \in Locations |-> [u \in Urls(loc) |-> Includes(u, "index.html")]]

\* faulty variant, for testing the properties: the catch rethrows without the offline lookup
PartFetchSettled_Rethrow(tk, out) ==
  IF ~out.ok
  THEN { Rejected(tk) }
  ELSE IF Invalid(out.response)
       THEN { Fulfilled(tk, out.response, "") }
       ELSE IF ~isDevelopment \/ ~IsIndexHtml[location][tk.req.url]
            THEN { [StoreOp(tk) EXCEPT !.pc = "open"] }
            ELSE { Fulfilled(tk, out.response, "") }

\* part_000 lines 101-134: the fetch settles
PartFetchSettled(tk, out) ==
  IF ~out.ok
  THEN IF tk.req.destination = "document"
       THEN { Rejected(StoreRaise(tk)) } \cup
            { IF CachesMatch(caches, IndexHtml) # Undefined
              THEN Fulfilled(StoreOp(tk), CachesMatch(caches, IndexHtml),
                             MatchStore(caches, IndexHtml))
              ELSE Rejected(StoreOp(tk)) }
       ELSE { Rejected(tk) }
  ELSE IF Invalid(out.response)
       THEN { Fulfilled(tk, out.response, "") }
       ELSE IF ~isDevelopment \/ ~IsIndexHtml[location][tk.req.url]
            THEN { [StoreOp(tk) EXCEPT !.pc = "open"] }
            ELSE { Fulfilled(tk, out.response, "") }

\* sw.js lines 74-108: the fetch settles. The inner catch returns the
\* lookup of /index.html for a document and nothing otherwise; a lookup that
\* raises reaches the outer catch. A valid response is returned at once and
\* the store is opened behind it
SwFetchSettled(tk, out) ==
  IF ~out.ok
  THEN IF tk.req.destination = "document"
       THEN { IssueFetch(StoreRaise(tk), "fallback_fetch") } \cup
            { Fulfilled(StoreOp(tk), CachesMatch(caches, IndexHtml),
                        MatchStore(caches, IndexHtml)) }
       ELSE { Fulfilled(tk, Undefined, "") }
  ELSE IF Invalid(out.response)
       THEN { Fulfilled(tk, out.response, "") }
       ELSE { [StoreOp(tk) EXCEPT !.pc = "open", !.state = "fulfilled",
                                  !.result = out.response] }

FetchSettled(t, out) ==
  /\ tasks[t].pc = "fetch"
  /\ \E nt \in IF script = "sw.js" THEN SwFetchSettled(Got(tasks[t], out), out)
               ELSE PartFetchSettled(Got(tasks[t], out), out) :
       tasks' = [tasks EXCEPT ![t] = nt]
  /\ UNCHANGED <<script, location, CACHE_NAME, prevName, phase, caches,
                 netVersion, instLog, actLog>>

\* sw.js line 108: the fetch of the outer catch settles
FallbackFetchSettled(t, out) ==
  /\ tasks[t].pc = "fallback_fetch"
  /\ tasks' = [tasks EXCEPT ![t] =
                 IF out.ok THEN Fulfilled(Got(tasks[t], out), out.response, "")
                 ELSE Rejected(Got(tasks[t], out))]
  /\ UNCHANGED <<script, location, CACHE_NAME, prevName, phase, caches,
                 netVersion, instLog, actLog>>

\* caches.open(CACHE_NAME) settles: part_000 lines 113 and 116-121, sw.js
\* lines 84-94
OpenSettled(t, io) ==
  /\ tasks[t].pc = "open"
  /\ IF io = "raise"
     THEN /\ tasks' = [tasks EXCEPT ![t] =
                 [Fulfilled(tasks[t], tasks[t].resp, "") EXCEPT !.ioError = TRUE]]
          /\ UNCHANGED caches
     ELSE /\ caches' = CachesOpen(caches, CACHE_NAME)
          /\ tasks' = [tasks EXCEPT ![t] = [StoreOp(tasks[t]) EXCEPT !.pc = "put"]]
  /\ UNCHANGED <<script, location, CACHE_NAME, prevName, phase,
                 netVersion, instLog, actLog>>

\* cache.put(event.request, responseToCache) settles: part_000 lines 114-121
\* catch a put that raises; sw.js line 87 does not wait for the put, whose
\* rejection nothing handles
PutSettled(t, io) ==
  /\ tasks[t].pc = "put"
  /\ caches' = IF io = "ok"
               THEN CachePut(caches, CACHE_NAME, tasks[t].req.url, tasks[t].resp)
               ELSE caches
  /\ tasks' = [tasks EXCEPT ![t] =
                 [Fulfilled(tasks[t], tasks[t].resp, "") EXCEPT
                    !.ioError = (io = "raise"),
                    !.unhandled = (script = "sw.js" /\ io = "raise")]]
  /\ UNCHANGED <<script, location, CACHE_NAME, prevName, phase,
                 netVersion, instLog, actLog>>

\* the platform takes the settled task's outcome
Retire(t) ==
  /\ tasks[t].pc = "done"
  /\ tasks' = [tasks EXCEPT ![t] = IdleTask]
  /\ UNCHANGED <<script, location, CACHE_NAME, prevName, phase, caches,
                 netVersion, instLog, actLog>>

\* -------------------------------------------------------------- install
SeedsAt ==
  [loc \in Locations |-> {Resolve(urlsToCache[i], loc) : i \in 1..Len(urlsToCache)}]

Seeds == SeedsAt[location]

\* what cache.add(url) stores when its fetch and its put succeed
SeedResponse(key) ==
  Response(key, 200, IF SameOriginAt[location][key] THEN "basic" ELSE "cors",
           netVersion)

RECURSIVE PutAll(_, _, _)
PutAll(cs, name, keys) ==
  IF keys = {} THEN cs
  ELSE LET k == CHOOSE x \in keys : TRUE
       IN  PutAll(CachePut(cs, name, k, SeedResponse(k)), name, keys \ {k})

\* part_000 lines 34-39, sw.js lines 19-24: the promise of one seed as
\* Promise.allSettled sees it; the catch turns a failed add into null
SeedSettled(added) == "fulfilled"

\* faulty variant, for testing the properties: the chain has no final catch
ChainCaught_Missing == "rejected"

\* the final catch of the install and activate chains: part_000 lines 47-49
\* and 157-159, sw.js lines 32-34 and 131-133
ChainCaught == "fulfilled"

NoInstall ==
  [opened |-> FALSE, attempted |-> {}, stored |-> {}, successful |-> 0,
   failed |-> 0, outcome |-> "none"]

\* caches.open(CACHE_NAME) of the install listener settles
InstallOpen(io) ==
  /\ phase = "parsed"
  /\ IF io = "raise"
     THEN /\ phase' = "installed"
          /\ instLog' = [NoInstall EXCEPT !.outcome = ChainCaught]
          /\ UNCHANGED caches
     ELSE /\ phase' = "installing"
          /\ instLog' = [NoInstall EXCEPT !.opened = TRUE]
          /\ caches' = CachesOpen(caches, CACHE_NAME)
  /\ UNCHANGED <<script, location, CACHE_NAME, prevName, tasks, netVersion,
                 actLog>>

\* part_000 lines 33-46, sw.js lines 18-31: every cache.add settles, added
\* being the seeds whose fetch and put succeeded, and the tally is taken
InstallSeeds(added) ==
  /\ phase = "installing"
  /\ LET results == [k \in Seeds |-> SeedSettled(k \in added)]
     IN  instLog' = [instLog EXCEPT
           !.attempted = DOMAIN results,
           !.stored = added,
           !.successful = Cardinality({k \in Seeds : results[k] = "fulfilled"}),
           !.failed = Cardinality({k \in Seeds : results[k] = "rejected"}),
           !.outcome = "fulfilled"]
  /\ caches' = PutAll(caches, CACHE_NAME, added)
  /\ phase' = "installed"
  /\ UNCHANGED <<script, location, CACHE_NAME, prevName, tasks, netVersion,
                 actLog>>

\* ------------------------------------------------------------- activate
NoActivate ==
  [names |-> {}, requested |-> {}, successful |-> 0, failed |-> 0,
   outcome |-> "none"]

\* faulty variant, for testing the properties: every store is deleted
ToDelete_All(names, current) == names

\* part_000 lines 143-151, sw.js lines 117-125: the names caches.delete is
\* called with
ToDelete(names, current) == {n \in names : n # current}

\* caches.keys() settles and the deletions are requested
ActivateKeys(io) ==
  /\ phase = "installed"
  /\ instLog' = NoInstall
  /\ IF io = "raise"
     THEN /\ phase' = "activated"
          /\ actLog' = [NoActivate EXCEPT !.outcome = ChainCaught]
     ELSE /\ phase' = "activating"
          /\ actLog' = [NoActivate EXCEPT
               !.names = StoreNames(caches),
               !.requested = ToDelete(StoreNames(caches), CACHE_NAME)]
  /\ UNCHANGED <<script, location, CACHE_NAME, prevName, caches, tasks,
                 netVersion>>

\* part_000 lines 144-156, sw.js lines 118-130: every deletion settles,
\* failing being the names whose deletion rejects; a deletion of a name that
\* is absent by now resolves; the tally is taken
ActivateDeletes(failing) ==
  /\ phase = "activating"
  /\ failing \subseteq actLog.requested
  /\ caches' = CachesDelete(caches, actLog.requested \ failing)
  /\ LET results == [n \in actLog.names |->
                       IF n \in failing THEN "rejected" ELSE "fulfilled"]
     IN  actLog' = [actLog EXCEPT
           !.successful = Cardinality({n \in actLog.names : results[n] = "fulfilled"}),
           !.failed = Cardinality({n \in actLog.names : results[n] = "rejected"}),
           !.outcome = "fulfilled"]
  /\ phase' = "activated"
  /\ UNCHANGED <<script, location, CACHE_NAME, prevName, tasks, netVersion,
                 instLog>>

\* the platform takes the settled activate and the worker goes live
GoLive ==
  /\ phase = "activated"
  /\ phase' = "active"
  /\ actLog' = NoActivate
  /\ UNCHANGED <<script, location, CACHE_NAME, prevName, caches, tasks,
                 netVersion, instLog>>

\* ------------------------------------------------------ the environment
\* the platform stops the idle worker and starts it again for the next event:
\* the script is evaluated again, Date.now() returning now
Startup(now) ==
  /\ phase \in {"installed", "active"}
  /\ Quiet
  /\ prevName' = CACHE_NAME
  /\ CACHE_NAME' = MintCacheName(script, location, now)
  /\ UNCHANGED <<script, location, phase, caches, tasks, netVersion,
                 instLog, actLog>>

\* the content the network serves changes
Deploy ==
  /\ netVersion < MaxVersion
  /\ netVersion' = netVersion + 1
  /\ UNCHANGED <<script, location, CACHE_NAME, prevName, phase, caches, tasks,
                 instLog, actLog>>

\* a page of the origin, or the browser, removes a store while the
\* deletions of activate are pending
ExternalDelete(name) ==
  /\ phase = "activating"
  /\ name \in StoreNames(caches)
  /\ caches' = CachesDelete(caches, {name})
  /\ UNCHANGED <<script, location, CACHE_NAME, prevName, phase, tasks,
                 netVersion, instLog, actLog>>

\* -------------------------------------------------------- specification
\* the outcomes of the seeds the fetch tasks are checked after: all stored,
\* none, the app shell alone, all but the app shell
SeedCases == { Seeds, {}, {IndexHtml}, Seeds \ {IndexHtml} }

\* a store an earlier release of the production worker left behind
LegacyStore(name) ==
  [name |-> name,
   entries |-> [k \in {IndexHtml} |-> Response(IndexHtml, 200, "basic", 0)]]

Init ==
  /\ \E d \in Deployments : script = d[1] /\ location = d[2]
  /\ \E now \in 1..MaxClock : CACHE_NAME = MintCacheName(script, location, now)
  /\ prevName = ""
  /\ phase = "parsed"
  /\ caches \in IF isDevelopment THEN { <<>> }
                ELSE { <<>>, <<LegacyStore("yourgpt-v0.8.0"),
                               LegacyStore("yourgpt-v0.9.0")>> }
  /\ tasks = [t \in 1..MaxTasks |-> IdleTask]
  /\ netVersion = 1
  /\ instLog = NoInstall
  /\ actLog = NoActivate

Next ==
  \/ \E io \in StoreOutcomes : InstallOpen(io)
  \/ \E added \in SeedCases : InstallSeeds(added)
  \/ \E io \in StoreOutcomes : ActivateKeys(io)
  \/ \E failing \in SUBSET actLog.requested : ActivateDeletes(failing)
  \/ GoLive
  \/ \E req \in RequestsAt[location] : Quiet /\ FetchEvent(req)
  \/ \E t \in Fetching :
       \E out \in NetOutcomes(tasks[t].req.url, location, netVersion) :
         DevFetchSettled(t, out)
  \/ \E t \in Fetching :
       \E out \in NetOutcomes(tasks[t].req.url, location, netVersion) :
         FetchSettled(t, out)
  \/ \E t \in Fetching :
       \E out \in NetOutcomes(tasks[t].req.url, location, netVersion) :
         FallbackFetchSettled(t, out)
  \/ \E t \in 1..MaxTasks : \E io \in StoreOutcomes : OpenSettled(t, io)
  \/ \E t \in 1..MaxTasks : \E io \in StoreOutcomes : PutSettled(t, io)
  \/ \E t \in 1..MaxTasks : Retire(t)
  \/ \E now \in 1..MaxClock : Startup(now)
  \/ Deploy
  \/ \E name \in StoreNames(caches) : ExternalDelete(name)

Spec == Init /\ [][Next]_vars

\* the lifecycle alone, every subset of the seeds failing
NextLifecycle ==
  \/ \E io \in StoreOutcomes : InstallOpen(io)
  \/ \E added \in SUBSET Seeds : InstallSeeds(added)
  \/ \E io \in StoreOutcomes : ActivateKeys(io)
  \/ \E failing \in SUBSET actLog.requested : ActivateDeletes(failing)
  \/ GoLive
  \/ \E now \in 1..MaxClock : Startup(now)
  \/ Deploy
  \/ \E name \in StoreNames(caches) : ExternalDelete(name)

SpecLifecycle == Init /\ [][NextLifecycle]_vars

\* -------------------------------------------------------- the properties
Slots == 1..MaxTasks

\* the entries of the store called name, none when there is no such store
EntriesOf(cs, name) ==
  IF name \in StoreNames(cs) THEN cs[StoreIndex(cs, name)].entries ELSE EmptyEntries

\* the scheme of a URL, without the colon
Scheme(u) == SubSeq(u, 1, FirstIndex(u, {":"}, 1) - 1)

AllowListed == {"cdn.tailwindcss.com", "cdn.jsdelivr.net", "fonts.googleapis.com", "supabase.co"}

\* the requests C1 is about
C1_Class(req, loc) ==
  \/ req.method # "GET"
  \/ Scheme(req.url) \in {"chrome", "chrome-extension", "moz-extension", "ms-browser-extension"}
  \/ /\ Origin(req.url) # Origin(loc)
     /\ \A h \in AllowListed : ~Includes(Hostname(req.url), h)

C1_ClassAt == [loc \in Locations |-> [req \in Requests(loc) |-> C1_Class(req, loc)]]

\* C1: the fetch event of a non-GET request, of a request with one of the
\* four extension schemes, or of a cross-origin request whose hostname holds
\* none of the four allow-listed substrings, is not intercepted: respondWith
\* is not called, no store operation and no fetch is issued, and every store
\* is as it was.
C1_PassThrough ==
  [][\A req \in RequestsAt[location] :
       (C1_ClassAt[location][req] /\ FetchEvent(req)) =>
         /\ caches' = caches
         /\ \A t \in Slots :
              tasks'[t] # tasks[t] =>
                /\ ~tasks'[t].intercepted
                /\ tasks'[t].state = "native"
                /\ tasks'[t].storeOps = 0
                /\ tasks'[t].netCalls = 0]_vars

C1_Witness ==
  \E t \in Slots :
    /\ tasks[t].state = "native"
    /\ tasks[t].req.method = "GET"
    /\ tasks[t].req.url = "https://example.org/ads.js"

\* C2: in production mode, a cacheable GET request that CacheStorage holds
\* when its event is dispatched, the lookup answering, is fulfilled in that
\* step with the stored response (the entry of the first store, in creation
\* order, that holds the request) and no fetch is issued.
C2_CacheHit ==
  [][\A req \in RequestsAt[location] :
       ( /\ ~isDevelopment
         /\ ~C1_ClassAt[location][req]
         /\ FetchEvent(req)
         /\ \E i \in 1..Len(caches) : req.url \in DOMAIN caches[i].entries ) =>
         \A t \in Slots :
           (tasks'[t] # tasks[t] /\ ~tasks'[t].ioError) =>
             /\ tasks'[t].pc = "done"
             /\ tasks'[t].state = "fulfilled"
             /\ tasks'[t].result =
                  caches[Min({i \in 1..Len(caches) : req.url \in DOMAIN caches[i].entries})]
                    .entries[req.url]
             /\ tasks'[t].netCalls = 0]_vars

C2_Witness ==
  \E t \in Slots :
    /\ ~isDevelopment
    /\ tasks[t].pc = "done"
    /\ tasks[t].state = "fulfilled"
    /\ tasks[t].hadEntry
    /\ tasks[t].from = CACHE_NAME
    /\ tasks[t].netCalls = 0

\* the outcomes of the fetch slot t is suspended at
Settling(t) ==
  IF t \in Fetching THEN NetOutcomes(tasks[t].req.url, location, netVersion) ELSE {}

Holds(cs, key) == \E i \in 1..Len(cs) : key \in DOMAIN cs[i].entries

\* the entry of the first store, in creation order, that holds the key
FirstEntry(cs, key) ==
  cs[Min({i \in 1..Len(cs) : key \in DOMAIN cs[i].entries})].entries[key]

C4_InvalidNotCached ==
  [][\A t \in Slots : \A out \in Settling(t) :
       ( /\ FetchSettled(t, out) \/ FallbackFetchSettled(t, out)
         /\ out.ok
         /\ out.response.status # 200 \/ out.response.type # "basic" ) =>
         /\ tasks'[t].pc = "done"
         /\ tasks'[t].state = "fulfilled"
         /\ tasks'[t].result = out.response
         /\ caches' = caches]_vars

C4_Witness ==
  \E t \in Slots :
    /\ tasks[t].pc = "done"
    /\ tasks[t].state = "fulfilled"
    /\ tasks[t].from = ""
    /\ tasks[t].result = tasks[t].resp
    /\ tasks[t].result.status = 200
    /\ tasks[t].result.type = "cors"
    /\ ~isDevelopment

\* C5: when the fetch of a cacheable GET request with destination document
\* fails, no store holds the request and a store holds /index.html, the
\* lookup answering, the task is fulfilled with the stored /index.html
\* response, in production and in development mode.
C5_OfflineDocument ==
  [][\A t \in Slots : \A out \in Settling(t) :
       ( /\ FetchSettled(t, out)
         /\ ~out.ok
         /\ tasks[t].req.destination = "document"
         /\ ~Holds(caches, tasks[t].req.url)
         /\ Holds(caches, IndexHtml)
         /\ ~tasks'[t].ioError ) =>
         /\ tasks'[t].pc = "done"
         /\ tasks'[t].state = "fulfilled"
         /\ tasks'[t].result = FirstEntry(caches, IndexHtml)]_vars

C5_Witness ==
  \E t \in Slots :
    /\ tasks[t].pc = "done"
    /\ tasks[t].state = "fulfilled"
    /\ tasks[t].req.destination = "document"
    /\ tasks[t].req.url # IndexHtml
    /\ ~tasks[t].hadEntry
    /\ tasks[t].from # ""
    /\ tasks[t].result.url = IndexHtml
    /\ tasks[t].resp = Undefined
    /\ tasks[t].netCalls > 0

\* C6: when the fetch of a cacheable GET request fails, no store holds the
\* request, and the destination is not document or no store holds
\* /index.html, the task ends rejected.
C6_FailurePropagates ==
  [][\A t \in Slots : \A out \in Settling(t) :
       ( /\ FetchSettled(t, out) \/ FallbackFetchSettled(t, out)
         /\ ~out.ok
         /\ ~Holds(caches, tasks[t].req.url)
         /\ tasks[t].req.destination # "document" \/ ~Holds(caches, IndexHtml)
         /\ ~tasks'[t].ioError ) =>
         /\ tasks'[t].pc = "done"
         /\ tasks'[t].state = "rejected"]_vars

\* C7: activate requests the deletion of every store name that exists when
\* it runs and differs from the current generation, and of no other; the
\* deletions remove nothing but requested names and leave the store of the
\* current generation as it is; whether deletions fail, or the listing
\* fails, the activate chain ends fulfilled.
C7_ActivatePrunes ==
  [][/\ (phase = "installed" /\ phase' = "activating") =>
          /\ actLog'.requested = StoreNames(caches) \ {CACHE_NAME}
          /\ caches' = caches
     /\ (phase = "activating" /\ phase' = "activated") =>
          /\ StoreNames(caches) \ StoreNames(caches') \subseteq
               actLog.requested \ {CACHE_NAME}
          /\ \A n \in actLog.requested :
               n \in StoreNames(caches') => actLog'.failed > 0
          /\ (CACHE_NAME \in StoreNames(caches)) =
               (CACHE_NAME \in StoreNames(caches'))
          /\ EntriesOf(caches', CACHE_NAME) = EntriesOf(caches, CACHE_NAME)
          /\ actLog'.outcome = "fulfilled"
     /\ (phase = "installed" /\ phase' = "activated") =>
          /\ caches' = caches
          /\ actLog'.outcome = "fulfilled"]_vars

C7_Witness ==
  /\ phase = "activated"
  /\ CACHE_NAME \in actLog.names
  /\ Cardinality(actLog.requested) = 2
  /\ actLog.failed = 1
  /\ actLog.outcome = "fulfilled"
  /\ StoreNames(caches) \cap actLog.requested # {}
  /\ actLog.requested \ StoreNames(caches) # {}
  /\ CACHE_NAME \in StoreNames(caches)

\* C8: in development mode, the generation name minted at a startup of the
\* worker differs from the name minted at the startup before it.
C8_DevGenerationsDistinct ==
  (isDevelopment /\ prevName # "") => CACHE_NAME # prevName

\* C9: in development mode, a response served for index.html comes from the
\* network or from the store of the current generation, never from the
\* store of an earlier one.
C9_NoStaleShell ==
  \A t \in Slots :
    ( /\ isDevelopment
      /\ tasks[t].state = "fulfilled"
      /\ tasks[t].result # Undefined
      /\ IsIndexHtml[location][tasks[t].req.url] ) =>
      tasks[t].from \in {"", CACHE_NAME}

\* C10: install opens the store of the current generation, attempts every
\* seed, stores each seed whose fetch and put succeed whatever the others
\* do, and its chain ends fulfilled, also when the open fails.
C10_BestEffortInstall ==
  [][/\ (phase = "parsed" /\ phase' = "installing") =>
          CACHE_NAME \in StoreNames(caches')
     /\ (phase = "installing" /\ phase' = "installed") =>
          /\ instLog'.attempted = Seeds
          /\ \A k \in instLog'.stored :
               /\ k \in DOMAIN EntriesOf(caches', CACHE_NAME)
               /\ EntriesOf(caches', CACHE_NAME)[k] = SeedResponse(k)
          /\ \A k \in Seeds \ instLog'.stored :
               k \in DOMAIN EntriesOf(caches', CACHE_NAME) =>
                 /\ k \in DOMAIN EntriesOf(caches, CACHE_NAME)
                 /\ EntriesOf(caches', CACHE_NAME)[k] =
                      EntriesOf(caches, CACHE_NAME)[k]
          /\ instLog'.outcome = "fulfilled"
     /\ (phase = "parsed" /\ phase' = "installed") =>
          /\ caches' = caches
          /\ instLog'.outcome = "fulfilled"]_vars

C10_Witness ==
  /\ phase = "installed"
  /\ instLog.opened
  /\ instLog.attempted = Seeds
  /\ instLog.stored # {}
  /\ instLog.stored # Seeds
  /\ instLog.outcome = "fulfilled"
  /\ \A k \in instLog.stored : k \in DOMAIN EntriesOf(caches, CACHE_NAME)

\* C11: in development mode the fetch is issued before any store operation
\* and, when it fails while a store holds the request, the lookup answering,
\* the task is fulfilled with the stored entry.
C11_DevNetworkFirstFallback ==
  [][\A t \in Slots :
       /\ \A req \in RequestsAt[location] :
            ( /\ isDevelopment
              /\ ~PassThroughAt[location][req]
              /\ FetchEvent(req)
              /\ tasks'[t] # tasks[t] ) =>
              /\ tasks'[t].netCalls = 1
              /\ tasks'[t].storeOps = 0
       /\ \A out \in Settling(t) :
            ( /\ isDevelopment
              /\ DevFetchSettled(t, out)
              /\ ~out.ok
              /\ Holds(caches, tasks[t].req.url)
              /\ ~tasks'[t].ioError ) =>
              /\ tasks'[t].pc = "done"
              /\ tasks'[t].state = "fulfilled"
              /\ tasks'[t].result = FirstEntry(caches, tasks[t].req.url)]_vars

\* C12: a fetch task one of whose store operations raised does not end
\* rejected unless it issued a network fetch and its last fetch failed: the
\* store failure alone never rejects the task.
C12_StoreFailuresDegrade ==
  \A t \in Slots :
    ( /\ tasks[t].intercepted
      /\ tasks[t].pc = "done"
      /\ tasks[t].ioError
      /\ tasks[t].state = "rejected" ) =>
      /\ tasks[t].netCalls > 0
      /\ tasks[t].resp = Undefined

\* fetch events are dispatched while earlier fetch tasks are still running:
\* the tasks interleave at their awaits; the worker, never idle for long, is
\* not stopped and started again
NextConcurrent ==
  \/ \E io \in StoreOutcomes : InstallOpen(io)
  \/ \E added \in SeedCases : InstallSeeds(added)
  \/ \E io \in StoreOutcomes : ActivateKeys(io)
  \/ \E failing \in SUBSET actLog.requested : ActivateDeletes(failing)
  \/ GoLive
  \/ \E req \in RequestsAt[location] : FetchEvent(req)
  \/ \E t \in Fetching :
       \E out \in NetOutcomes(tasks[t].req.url, location, netVersion) :
         DevFetchSettled(t, out)
  \/ \E t \in Fetching :
       \E out \in NetOutcomes(tasks[t].req.url, location, netVersion) :
         FetchSettled(t, out)
  \/ \E t \in Fetching :
       \E out \in NetOutcomes(tasks[t].req.url, location, netVersion) :
         FallbackFetchSettled(t, out)
  \/ \E t \in 1..MaxTasks : \E io \in StoreOutcomes : OpenSettled(t, io)
  \/ \E t \in 1..MaxTasks : \E io \in StoreOutcomes : PutSettled(t, io)
  \/ \E t \in 1..MaxTasks : Retire(t)
  \/ Deploy
  \/ \E name \in StoreNames(caches) : ExternalDelete(name)

SpecConcurrent == Init /\ [][NextConcurrent]_vars

\* C13: in production mode, with fetch tasks interleaving: a task that
\* missed and whose fetch returned a valid response is fulfilled with the
\* response it fetched itself; a put that succeeds leaves under the request
\* exactly the response of the task that puts, whatever was there, and
\* touches no other entry; and no other step of a fetch task changes an
\* entry.  The store therefore holds the response of the last put.
C13_LastWriteWins ==
  [][(~isDevelopment /\ phase = "active") =>
       /\ \A t \in Slots : \A out \in Settling(t) :
            ( /\ FetchSettled(t, out)
              /\ out.ok
              /\ ~Invalid(out.response) ) =>
              /\ tasks'[t].resp = out.response
              /\ tasks'[t].pc = "open"
       /\ \A t \in Slots :
            ( /\ tasks[t].pc \in {"open", "put"}
              /\ tasks'[t] # tasks[t] ) =>
              /\ tasks'[t].resp = tasks[t].resp
              /\ tasks'[t].pc = "done" =>
                   /\ tasks'[t].state = "fulfilled"
                   /\ tasks'[t].result = tasks[t].resp
       /\ \A t \in Slots :
            PutSettled(t, "ok") =>
              /\ tasks'[t].result = tasks[t].resp
              /\ DOMAIN EntriesOf(caches', CACHE_NAME) =
                   DOMAIN EntriesOf(caches, CACHE_NAME) \cup {tasks[t].req.url}
              /\ \A k \in DOMAIN EntriesOf(caches', CACHE_NAME) :
                   EntriesOf(caches', CACHE_NAME)[k] =
                     IF k = tasks[t].req.url THEN tasks[t].resp
                     ELSE EntriesOf(caches, CACHE_NAME)[k]
       /\ (\A t \in Slots : ~PutSettled(t, "ok")) =>
            EntriesOf(caches', CACHE_NAME) = EntriesOf(caches, CACHE_NAME)]_vars

\* two tasks for the same request both missed, fetched different versions
\* and wrote; the store holds the response of one of them, which is not
\* what the other returned
C13_Witness ==
  /\ ~isDevelopment
  /\ \A t \in {1, 2} :
       /\ tasks[t].pc = "done"
       /\ tasks[t].intercepted
       /\ ~tasks[t].hadEntry
       /\ ~tasks[t].ioError
       /\ tasks[t].storeOps = 3
       /\ tasks[t].result = tasks[t].resp
       /\ ~Invalid(tasks[t].resp)
  /\ tasks[1].req = tasks[2].req
  /\ tasks[1].resp.body > tasks[2].resp.body
  /\ EntriesOf(caches, CACHE_NAME)[tasks[1].req.url] = tasks[2].resp

\* C14: a fetch task whose fetch returned a valid response and one of whose
\* store operations raised ends fulfilled with that response, and the
\* failure is handled: no rejection is left unhandled.
C14_WriteFailureContained ==
  \A t \in Slots :
    ( /\ tasks[t].intercepted
      /\ tasks[t].pc = "done"
      /\ ~Invalid(tasks[t].resp)
      /\ tasks[t].ioError ) =>
      /\ tasks[t].state = "fulfilled"
      /\ tasks[t].result = tasks[t].resp
      /\ ~tasks[t].unhandled

\* C15: in production mode a task answered by the cache-first lookup, with
\* no fetch issued, is answered with an entry of the store of the current
\* generation.
C15_LookupPerGeneration ==
  \A t \in Slots :
    ( /\ ~isDevelopment
      /\ tasks[t].intercepted
      /\ tasks[t].state = "fulfilled"
      /\ tasks[t].netCalls = 0 ) =>
      /\ tasks[t].from = CACHE_NAME
      /\ tasks[t].req.url \in DOMAIN EntriesOf(caches, CACHE_NAME)
      /\ tasks[t].result = EntriesOf(caches, CACHE_NAME)[tasks[t].req.url]

\* the requests for the app-shell document: /index.html and the root /
AppShellAt ==
  [loc \in Locations |-> {Resolve("/index.html", loc), Resolve("/", loc)}]

\* C16: in development mode no step of a fetch task adds or changes an entry
\* for the app-shell document in the store of the current generation, and a
\* first fetch that returns status 200 fulfils the task with that response.
C16_ShellNotCachedInDev ==
  [][(isDevelopment /\ phase = "active") =>
       /\ \A k \in AppShellAt[location] :
            /\ (k \in DOMAIN EntriesOf(caches', CACHE_NAME)) =
                 (k \in DOMAIN EntriesOf(caches, CACHE_NAME))
            /\ k \in DOMAIN EntriesOf(caches, CACHE_NAME) =>
                 EntriesOf(caches', CACHE_NAME)[k] = EntriesOf(caches, CACHE_NAME)[k]
       /\ \A t \in Slots : \A out \in Settling(t) :
            ( /\ DevFetchSettled(t, out)
              /\ out.ok
              /\ out.response.status = 200 ) =>
              /\ tasks'[t].pc = "done"
              /\ tasks'[t].state = "fulfilled"
              /\ tasks'[t].result = out.response]_vars

\* C17: when install has settled its seeds, the failure count it reports is
\* the number of seeds that were not stored, the success count is the number
\* of seeds stored, and the two sum to the length of the seed list.
C17_InstallTally ==
  (phase = "installed" /\ instLog.opened) =>
    /\ instLog.failed = Cardinality(Seeds \ instLog.stored)
    /\ instLog.successful = Cardinality(instLog.stored)
    /\ instLog.successful + instLog.failed = Len(urlsToCache)

\* C18: the handling of one intercepted request issues at most one network
\* fetch.
C18_AtMostOneFetch ==
  \A t \in Slots : tasks[t].intercepted => tasks[t].netCalls <= 1

\* C19: a step of install or of a fetch task creates no store but the one
\* the current generation names and changes the entries of no other store;
\* it removes no store and no entry; and an entry a fetch task writes is
\* keyed by a cacheable GET request and holds a response of status 200 and
\* type basic.
C19_StoreWrites ==
  [][(phase \in {"parsed", "installing", "active"}) =>
       /\ StoreNames(caches') \ StoreNames(caches) \subseteq {CACHE_NAME}
       /\ StoreNames(caches) \subseteq StoreNames(caches')
       /\ \A n \in StoreNames(caches) :
            /\ DOMAIN EntriesOf(caches, n) \subseteq DOMAIN EntriesOf(caches', n)
            /\ n # CACHE_NAME => EntriesOf(caches', n) = EntriesOf(caches, n)
       /\ phase = "active" =>
            \A k \in DOMAIN EntriesOf(caches', CACHE_NAME) :
              ( \/ k \notin DOMAIN EntriesOf(caches, CACHE_NAME)
                \/ EntriesOf(caches', CACHE_NAME)[k] # EntriesOf(caches, CACHE_NAME)[k] ) =>
                /\ \E req \in RequestsAt[location] :
                     /\ req.url = k
                     /\ req.method = "GET"
                     /\ ~C1_ClassAt[location][req]
                /\ EntriesOf(caches', CACHE_NAME)[k].status = 200
                /\ EntriesOf(caches', CACHE_NAME)[k].type = "basic"]_vars

C19_Witness ==
  \E t \in Slots :
    /\ phase = "active"
    /\ tasks[t].pc = "done"
    /\ tasks[t].storeOps = 3
    /\ ~tasks[t].ioError
    /\ Len(caches) > 1
    /\ tasks[t].req.url \in DOMAIN EntriesOf(caches, CACHE_NAME)
    /\ EntriesOf(caches, CACHE_NAME)[tasks[t].req.url] = tasks[t].resp

\* every store operation and every network fetch that is pending eventually
\* completes, with success or failure
Completion ==
  /\ WF_vars(\E io \in StoreOutcomes : InstallOpen(io))
  /\ WF_vars(\E added \in SeedCases : InstallSeeds(added))
  /\ WF_vars(\E failing \in SUBSET actLog.requested : ActivateDeletes(failing))
  /\ \A t \in Slots :
       /\ WF_vars(\E out \in Settling(t) :
                    \/ DevFetchSettled(t, out)
                    \/ FetchSettled(t, out)
                    \/ FallbackFetchSettled(t, out))
       /\ WF_vars(\E io \in StoreOutcomes : OpenSettled(t, io) \/ PutSettled(t, io))

\* the steps of the worker with fetch tasks interleaving, the content the
\* network serves staying as it is
NextSettling ==
  \/ \E io \in StoreOutcomes : InstallOpen(io)
  \/ \E added \in SeedCases : InstallSeeds(added)
  \/ \E io \in StoreOutcomes : ActivateKeys(io)
  \/ \E failing \in SUBSET actLog.requested : ActivateDeletes(failing)
  \/ GoLive
  \/ \E req \in RequestsAt[location] : FetchEvent(req)
  \/ \E t \in Fetching :
       \E out \in NetOutcomes(tasks[t].req.url, location, netVersion) :
         DevFetchSettled(t, out)
  \/ \E t \in Fetching :
       \E out \in NetOutcomes(tasks[t].req.url, location, netVersion) :
         FetchSettled(t, out)
  \/ \E t \in Fetching :
       \E out \in NetOutcomes(tasks[t].req.url, location, netVersion) :
         FallbackFetchSettled(t, out)
  \/ \E t \in 1..MaxTasks : \E io \in StoreOutcomes : OpenSettled(t, io)
  \/ \E t \in 1..MaxTasks : \E io \in StoreOutcomes : PutSettled(t, io)
  \/ \E t \in 1..MaxTasks : Retire(t)
  \/ \E name \in StoreNames(caches) : ExternalDelete(name)

SpecFair == Init /\ [][NextSettling]_vars /\ Completion

\* C20: when every pending store operation and network fetch eventually
\* completes, every intercepted fetch task eventually ends, fulfilled or
\* rejected, and an outcome once given stays; an install whose open is
\* pending or whose seeds are pending eventually completes, and so does an
\* activate whose deletions are pending.
C20_EveryTaskSettles ==
  /\ \A t \in Slots :
       (tasks[t].intercepted /\ tasks[t].pc # "done") ~>
         (tasks[t].pc = "done" /\ tasks[t].state \in {"fulfilled", "rejected"})
  /\ (phase \in {"parsed", "installing"}) ~> (phase = "installed")
  /\ (phase = "activating") ~> (phase = "activated")
  /\ [][\A t \in Slots :
          (tasks[t].state \in {"fulfilled", "rejected"} /\ tasks'[t].pc # "idle") =>
            /\ tasks'[t].state = tasks[t].state
            /\ tasks'[t].result = tasks[t].result]_vars

C20_Witness ==
  \E t \in Slots :
    /\ phase = "active"
    /\ tasks[t].intercepted
    /\ tasks[t].pc = "done"
    /\ tasks[t].state = "rejected"
    /\ tasks[t].netCalls = 2
    /\ \E u \in Slots : tasks[u].intercepted /\ tasks[u].pc \in {"open", "put"}

====
